---- MODULE Spec2Model ----
(***************************************************************************)
(* Model of src/main.cpp: the bootstrap, geometry upload, shader build,    *)
(* frame loop and shutdown of the triangle renderer, as one sequential     *)
(* process.  Every call the program makes to GLFW, glad or OpenGL is       *)
(* counted in `calls`; the outcomes of the library calls the program       *)
(* tests (glfwInit, glfwCreateWindow, gladLoadGLLoader, the compile and    *)
(* link status flags) and the window events delivered by glfwPollEvents    *)
(* are nondeterministic inputs.                                            *)
(*                                                                         *)
(* Library behaviour assumed (GLFW): a new window's close flag is unset;   *)
(* the cached key state and the close flag change, and the framebuffer     *)
(* size callback runs, only while glfwPollEvents processes events;         *)
(* glfwTerminate destroys the remaining window and context.                *)
(***************************************************************************)
EXTENDS Integers, Sequences, FiniteSets, TLC

VARIABLES
    pc,             \* position of main()
    returned,       \* <<>> while main runs, <<code>> once it has returned
    failure,        \* the library call whose failure ended bootstrap ("none": none)
    calls,          \* number of calls made so far, per library function
    glBeforeLoad,   \* TRUE once a gl* function was called with no pointers loaded
    glfwState,      \* "uninit" | "init" | "terminated"
    window,         \* TRUE while the window (and its context) exists
    contextCurrent, \* TRUE once the window's context is current
    callbackSet,    \* TRUE once framebuffer_size_callback is registered
    loaded,         \* TRUE once gladLoadGLLoader has succeeded
    status,         \* compile / link status flag read back for each build step
    stderr,         \* messages written to std::cerr, in order
    shouldClose,    \* the window's close flag
    escKey,         \* cached state of GLFW_KEY_ESCAPE: "RELEASE" | "PRESS"
    iter,           \* number of loop iterations started
    escIter,        \* iteration in which Escape was first seen pressed (0: none)
    closeSeen,      \* TRUE once the loop condition has observed the close flag
    viewportLog,    \* arguments of every glViewport call, in order
    resizeLog,      \* framebuffer sizes of every resize event delivered, in order
    drawArgs        \* arguments of the last glDrawArrays call

vars == <<pc, returned, failure, calls, glBeforeLoad, glfwState, window, contextCurrent,
          callbackSet, loaded, status, stderr, shouldClose, escKey, iter,
          escIter, closeSeen, viewportLog, resizeLog, drawArgs>>

envVars == <<failure, glfwState, window, contextCurrent, callbackSet, loaded>>
buildVars == <<status, stderr>>
loopVars == <<shouldClose, escKey, iter, escIter, closeSeen, viewportLog,
              resizeLog, drawArgs>>

\* ---------------------------------------------------------------- bounds
MaxFrames == 3
MaxEvents == 2
MaxResizes == 3

\* ------------------------------------------------------------- vocabulary
GlfwCalls ==
    {"glfwInit", "glfwWindowHint", "glfwCreateWindow", "glfwTerminate",
     "glfwMakeContextCurrent", "glfwSetFramebufferSizeCallback",
     "glfwWindowShouldClose", "glfwGetKey", "glfwSetWindowShouldClose",
     "glfwSwapBuffers", "glfwPollEvents"}

GlCalls ==
    {"glViewport", "glGenVertexArrays", "glGenBuffers", "glBindVertexArray",
     "glBindBuffer", "glBufferData", "glVertexAttribPointer",
     "glEnableVertexAttribArray", "glCreateShader", "glShaderSource",
     "glCompileShader", "glGetShaderiv", "glGetShaderInfoLog",
     "glCreateProgram", "glAttachShader", "glLinkProgram", "glGetProgramiv",
     "glGetProgramInfoLog", "glDeleteShader", "glClear", "glUseProgram",
     "glDrawArrays", "glDeleteVertexArrays", "glDeleteBuffers",
     "glDeleteProgram"}

CallNames == GlfwCalls \cup GlCalls \cup {"gladLoadGLLoader"}

BuildSteps == {"vertex", "fragment", "program"}

FbSizes == {<<800, 600>>, <<1024, 768>>}

Events ==
    [type : {"resize"}, w : {s[1] : s \in FbSizes}, h : {s[2] : s \in FbSizes}]
    \cup [type : {"close", "escPress", "escRelease"}, w : {0}, h : {0}]

EventBatches == UNION {[1..n -> Events] : n \in 0..MaxEvents}

\* ---------------------------------------------------------------- helpers
RECURSIVE Bump(_, _)
Bump(f, names) ==
    IF names = <<>> THEN f
    ELSE Bump([f EXCEPT ![Head(names)] = @ + 1], Tail(names))

\* main() makes the calls `names` and moves on to `next`.
Do(names, next) ==
    /\ pc' = next
    /\ calls' = Bump(calls, names)
    /\ glBeforeLoad' =
         (glBeforeLoad \/ (~loaded /\ \E i \in 1..Len(names) : names[i] \in GlCalls))

Return(code) == returned' = <<code>>

Init ==
    /\ pc = "glfwInit"
    /\ returned = <<>>
    /\ failure = "none"
    /\ calls = [c \in CallNames |-> 0]
    /\ glBeforeLoad = FALSE
    /\ glfwState = "uninit"
    /\ window = FALSE
    /\ contextCurrent = FALSE
    /\ callbackSet = FALSE
    /\ loaded = FALSE
    /\ status = [s \in BuildSteps |-> "none"]
    /\ stderr = <<>>
    /\ shouldClose = FALSE
    /\ escKey = "RELEASE"
    /\ iter = 0
    /\ escIter = 0
    /\ closeSeen = FALSE
    /\ viewportLog = <<>>
    /\ resizeLog = <<>>
    /\ drawArgs = <<>>

\* -------------------------------------------------------------- bootstrap
GlfwInit ==
    /\ pc = "glfwInit"
    /\ \E ok \in BOOLEAN :
         IF ok
         THEN /\ Do(<<"glfwInit">>, "windowHints")
              /\ glfwState' = "init"
              /\ UNCHANGED <<returned, failure>>
         ELSE /\ Do(<<"glfwInit">>, "exit")
              /\ failure' = "glfwInit"
              /\ Return(-1)
              /\ UNCHANGED glfwState
    /\ UNCHANGED <<window, contextCurrent, callbackSet, loaded, buildVars, loopVars>>

WindowHints ==
    /\ pc = "windowHints"
    /\ Do(<<"glfwWindowHint", "glfwWindowHint", "glfwWindowHint">>, "createWindow")
    /\ UNCHANGED <<returned, envVars, buildVars, loopVars>>

\* glfwCreateWindow (line 42) and its failure branch (lines 43-46).
CreateWindow_WrongCode ==
    /\ pc = "createWindow"
    /\ \E ok \in BOOLEAN :
         IF ok
         THEN /\ Do(<<"glfwCreateWindow">>, "makeContextCurrent")
              /\ window' = TRUE
              /\ UNCHANGED <<returned, failure, glfwState>>
         ELSE /\ Do(<<"glfwCreateWindow", "glfwTerminate">>, "exit")
              /\ failure' = "glfwCreateWindow"
              /\ glfwState' = "terminated"
              /\ Return(0)
              /\ UNCHANGED window
    /\ UNCHANGED <<contextCurrent, callbackSet, loaded, buildVars, loopVars>>

CreateWindow ==
    /\ pc = "createWindow"
    /\ \E ok \in BOOLEAN :
         IF ok
         THEN /\ Do(<<"glfwCreateWindow">>, "makeContextCurrent")
              /\ window' = TRUE
              /\ UNCHANGED <<returned, failure, glfwState>>
         ELSE /\ Do(<<"glfwCreateWindow", "glfwTerminate">>, "exit")
              /\ failure' = "glfwCreateWindow"
              /\ glfwState' = "terminated"
              /\ Return(-1)
              /\ UNCHANGED window
    /\ UNCHANGED <<contextCurrent, callbackSet, loaded, buildVars, loopVars>>

MakeContextCurrent ==
    /\ pc = "makeContextCurrent"
    /\ Do(<<"glfwMakeContextCurrent">>, "setCallback")
    /\ contextCurrent' = TRUE
    /\ UNCHANGED <<returned, failure, glfwState, window, callbackSet, loaded,
                   buildVars, loopVars>>

SetFramebufferSizeCallback ==
    /\ pc = "setCallback"
    /\ Do(<<"glfwSetFramebufferSizeCallback">>, "loadGL")
    /\ callbackSet' = TRUE
    /\ UNCHANGED <<returned, failure, glfwState, window, contextCurrent, loaded,
                   buildVars, loopVars>>

\* gladLoadGLLoader (line 51) and its failure branch (lines 52-53), which
\* returns without calling glfwTerminate.
LoadGL_IgnoreFailure ==
    /\ pc = "loadGL"
    /\ \E ok \in BOOLEAN :
         /\ Do(<<"gladLoadGLLoader">>, "genObjects")
         /\ loaded' = ok
         /\ UNCHANGED <<returned, failure, stderr>>
    /\ UNCHANGED <<glfwState, window, contextCurrent, callbackSet, status, loopVars>>

LoadGL ==
    /\ pc = "loadGL"
    /\ \E ok \in BOOLEAN :
         IF ok
         THEN /\ Do(<<"gladLoadGLLoader">>, "genObjects")
              /\ loaded' = TRUE
              /\ UNCHANGED <<returned, failure, stderr>>
         ELSE /\ Do(<<"gladLoadGLLoader">>, "exit")
              /\ failure' = "gladLoadGLLoader"
              /\ stderr' = Append(stderr, "Failed to initialize GLAD")
              /\ Return(-1)
              /\ UNCHANGED loaded
    /\ UNCHANGED <<glfwState, window, contextCurrent, callbackSet, status, loopVars>>

\* -------------------------------------------------------- geometry upload
GenObjects_Twice ==
    /\ pc = "genObjects"
    /\ Do(<<"glGenVertexArrays", "glGenVertexArrays", "glGenBuffers">>, "upload")
    /\ UNCHANGED <<returned, envVars, buildVars, loopVars>>

GenObjects ==
    /\ pc = "genObjects"
    /\ Do(<<"glGenVertexArrays", "glGenBuffers">>, "upload")
    /\ UNCHANGED <<returned, envVars, buildVars, loopVars>>

UploadGeometry ==
    /\ pc = "upload"
    /\ Do(<<"glBindVertexArray", "glBindBuffer", "glBufferData",
            "glVertexAttribPointer", "glEnableVertexAttribArray">>, "compileVertex")
    /\ UNCHANGED <<returned, envVars, buildVars, loopVars>>

\* ------------------------------------------------------------ shader build
\* Create, source, compile, read the status flag; on failure fetch and print
\* the log and carry on.
CompileCalls(ok) ==
    <<"glCreateShader", "glShaderSource", "glCompileShader", "glGetShaderiv">>
    \o (IF ok THEN <<>> ELSE <<"glGetShaderInfoLog">>)

CompileVertexShader_Fatal ==
    /\ pc = "compileVertex"
    /\ \E ok \in BOOLEAN :
         IF ok
         THEN /\ Do(CompileCalls(ok), "compileFragment")
              /\ status' = [status EXCEPT !["vertex"] = "ok"]
              /\ UNCHANGED <<stderr, returned>>
         ELSE /\ Do(CompileCalls(ok), "exit")
              /\ status' = [status EXCEPT !["vertex"] = "failed"]
              /\ stderr' = Append(stderr, "ERROR::VERTEX_SHADER_COMPILATION_FAILED")
              /\ Return(-1)
    /\ UNCHANGED <<envVars, loopVars>>

CompileVertexShader ==
    /\ pc = "compileVertex"
    /\ \E ok \in BOOLEAN :
         /\ Do(CompileCalls(ok), "compileFragment")
         /\ status' = [status EXCEPT !["vertex"] = IF ok THEN "ok" ELSE "failed"]
         /\ stderr' = IF ok THEN stderr
                      ELSE Append(stderr, "ERROR::VERTEX_SHADER_COMPILATION_FAILED")
    /\ UNCHANGED <<returned, envVars, loopVars>>

CompileFragmentShader ==
    /\ pc = "compileFragment"
    /\ \E ok \in BOOLEAN :
         /\ Do(CompileCalls(ok), "linkProgram")
         /\ status' = [status EXCEPT !["fragment"] = IF ok THEN "ok" ELSE "failed"]
         /\ stderr' = IF ok THEN stderr
                      ELSE Append(stderr, "ERROR::FRAGMENT_SHADER_COMPILATION_FAILED")
    /\ UNCHANGED <<returned, envVars, loopVars>>

\* A program whose attached stages did not both compile cannot link.
LinkOutcomes ==
    IF status["vertex"] = "ok" /\ status["fragment"] = "ok" THEN BOOLEAN ELSE {FALSE}

LinkProgram ==
    /\ pc = "linkProgram"
    /\ \E ok \in LinkOutcomes :
         /\ Do(<<"glCreateProgram", "glAttachShader", "glAttachShader",
                 "glLinkProgram", "glGetProgramiv">>
               \o (IF ok THEN <<>> ELSE <<"glGetProgramInfoLog">>), "deleteShaders")
         /\ status' = [status EXCEPT !["program"] = IF ok THEN "ok" ELSE "failed"]
         /\ stderr' = IF ok THEN stderr
                      ELSE Append(stderr, "ERROR::SHADER_PROGRAM_LINKING_FAILED")
    /\ UNCHANGED <<returned, envVars, loopVars>>

DeleteShaders ==
    /\ pc = "deleteShaders"
    /\ Do(<<"glDeleteShader", "glDeleteShader">>, "loopTest")
    /\ UNCHANGED <<returned, envVars, buildVars, loopVars>>

\* ---------------------------------------------------------- resize callback
\* The glViewport arguments framebuffer_size_callback passes for a resize to
\* width x height.
framebuffer_size_callback_Swapped(width, height) == <<0, 0, height, width>>

framebuffer_size_callback(width, height) == <<0, 0, width, height>>

\* ------------------------------------------------- event dispatch (GLFW)
IsResize(e) == e.type = "resize"

\* Framebuffer sizes of the resize events of a batch, in order.
Resizes(evs) ==
    LET rs == SelectSeq(evs, IsResize)
    IN  [i \in 1..Len(rs) |-> <<rs[i].w, rs[i].h>>]

\* glViewport calls made while the batch is dispatched: one run of the
\* registered callback per resize event.
Viewports(evs) ==
    LET rs == Resizes(evs)
    IN  IF callbackSet
        THEN [i \in 1..Len(rs) |-> framebuffer_size_callback(rs[i][1], rs[i][2])]
        ELSE <<>>

\* Cached Escape key state after the batch: the last key event wins.
RECURSIVE KeyAfter(_, _)
KeyAfter(key, evs) ==
    IF evs = <<>> THEN key
    ELSE KeyAfter(CASE Head(evs).type = "escPress" -> "PRESS"
                    [] Head(evs).type = "escRelease" -> "RELEASE"
                    [] OTHER -> key,
                  Tail(evs))

CloseRequested(evs) == \E i \in 1..Len(evs) : evs[i].type = "close"

\* --------------------------------------------------------------- frame loop
\* while (!glfwWindowShouldClose(window)), line 119.
LoopTest ==
    /\ pc = "loopTest"
    /\ shouldClose \/ iter < MaxFrames
    /\ IF shouldClose
       THEN /\ Do(<<"glfwWindowShouldClose">>, "deleteVAO")
            /\ closeSeen' = TRUE
            /\ UNCHANGED iter
       ELSE /\ Do(<<"glfwWindowShouldClose">>, "processInput")
            /\ iter' = iter + 1
            /\ UNCHANGED closeSeen
    /\ UNCHANGED <<returned, envVars, buildVars, shouldClose, escKey, escIter,
                   viewportLog, resizeLog, drawArgs>>

\* Lines 121-122.
ProcessInput_Break ==
    /\ pc = "processInput"
    /\ IF escKey = "PRESS"
       THEN /\ Do(<<"glfwGetKey", "glfwSetWindowShouldClose">>, "deleteVAO")
            /\ shouldClose' = TRUE
            /\ escIter' = iter
       ELSE /\ Do(<<"glfwGetKey">>, "clear")
            /\ UNCHANGED <<shouldClose, escIter>>
    /\ UNCHANGED <<returned, envVars, buildVars, escKey, iter, closeSeen,
                   viewportLog, resizeLog, drawArgs>>

ProcessInput ==
    /\ pc = "processInput"
    /\ IF escKey = "PRESS"
       THEN /\ Do(<<"glfwGetKey", "glfwSetWindowShouldClose">>, "clear")
            /\ shouldClose' = TRUE
            /\ escIter' = iter
       ELSE /\ Do(<<"glfwGetKey">>, "clear")
            /\ UNCHANGED <<shouldClose, escIter>>
    /\ UNCHANGED <<returned, envVars, buildVars, escKey, iter, closeSeen,
                   viewportLog, resizeLog, drawArgs>>

Clear ==
    /\ pc = "clear"
    /\ Do(<<"glClear">>, "useProgram")
    /\ UNCHANGED <<returned, envVars, buildVars, loopVars>>

UseProgram_SkipBind ==
    /\ pc = "useProgram"
    /\ Do(<<"glUseProgram">>, "draw")
    /\ UNCHANGED <<returned, envVars, buildVars, loopVars>>

UseProgram ==
    /\ pc = "useProgram"
    /\ Do(<<"glUseProgram">>, "bindVAO")
    /\ UNCHANGED <<returned, envVars, buildVars, loopVars>>

BindVAO ==
    /\ pc = "bindVAO"
    /\ Do(<<"glBindVertexArray">>, "draw")
    /\ UNCHANGED <<returned, envVars, buildVars, loopVars>>

Draw ==
    /\ pc = "draw"
    /\ Do(<<"glDrawArrays">>, "swapBuffers")
    /\ drawArgs' = <<"GL_TRIANGLES", 0, 3>>
    /\ UNCHANGED <<returned, envVars, buildVars, shouldClose, escKey, iter,
                   escIter, closeSeen, viewportLog, resizeLog>>

SwapBuffers ==
    /\ pc = "swapBuffers"
    /\ Do(<<"glfwSwapBuffers">>, "pollEvents")
    /\ UNCHANGED <<returned, envVars, buildVars, loopVars>>

\* glfwPollEvents, line 134: processes the pending events, running the
\* framebuffer size callback for each resize among them.
PollEvents ==
    /\ pc = "pollEvents"
    /\ \E evs \in EventBatches :
         /\ Len(resizeLog) + Len(Resizes(evs)) <= MaxResizes
         /\ Do(<<"glfwPollEvents">>
               \o [i \in 1..Len(Viewports(evs)) |-> "glViewport"], "loopTest")
         /\ viewportLog' = viewportLog \o Viewports(evs)
         /\ resizeLog' = resizeLog \o Resizes(evs)
         /\ shouldClose' = (shouldClose \/ CloseRequested(evs))
         /\ escKey' = KeyAfter(escKey, evs)
    /\ UNCHANGED <<returned, envVars, buildVars, iter, escIter, closeSeen, drawArgs>>

\* ----------------------------------------------------------------- shutdown
DeleteVAO_WrongObject ==
    /\ pc = "deleteVAO"
    /\ Do(<<"glDeleteBuffers">>, "deleteVBO")
    /\ UNCHANGED <<returned, envVars, buildVars, loopVars>>

DeleteVAO ==
    /\ pc = "deleteVAO"
    /\ Do(<<"glDeleteVertexArrays">>, "deleteVBO")
    /\ UNCHANGED <<returned, envVars, buildVars, loopVars>>

DeleteVBO_Omitted ==
    /\ pc = "deleteVBO"
    /\ Do(<<>>, "deleteProgram")
    /\ UNCHANGED <<returned, envVars, buildVars, loopVars>>

DeleteVBO ==
    /\ pc = "deleteVBO"
    /\ Do(<<"glDeleteBuffers">>, "deleteProgram")
    /\ UNCHANGED <<returned, envVars, buildVars, loopVars>>

DeleteProgram ==
    /\ pc = "deleteProgram"
    /\ Do(<<"glDeleteProgram">>, "terminate")
    /\ UNCHANGED <<returned, envVars, buildVars, loopVars>>

\* glfwTerminate(); return 0;
Terminate ==
    /\ pc = "terminate"
    /\ Do(<<"glfwTerminate">>, "exit")
    /\ glfwState' = "terminated"
    /\ window' = FALSE
    /\ contextCurrent' = FALSE
    /\ Return(0)
    /\ UNCHANGED <<failure, callbackSet, loaded, buildVars, loopVars>>

Next ==
    \/ GlfwInit
    \/ WindowHints
    \/ CreateWindow
    \/ MakeContextCurrent
    \/ SetFramebufferSizeCallback
    \/ LoadGL
    \/ GenObjects
    \/ UploadGeometry
    \/ CompileVertexShader
    \/ CompileFragmentShader
    \/ LinkProgram
    \/ DeleteShaders
    \/ LoopTest
    \/ ProcessInput
    \/ Clear
    \/ UseProgram
    \/ BindVAO
    \/ Draw
    \/ SwapBuffers
    \/ PollEvents
    \/ DeleteVAO
    \/ DeleteVBO
    \/ DeleteProgram
    \/ Terminate

Spec == Init /\ [][Next]_vars

\* main() is the only thread and every call it makes returns, so it keeps
\* stepping while it has a next statement.
FairSpec == Spec /\ WF_vars(Next)

\* ------------------------------------------------------- derived quantities
Exited == returned # <<>>
ExitCode == returned[1]

\* Objects generated and not yet deleted.
LiveVAOs == calls["glGenVertexArrays"] - calls["glDeleteVertexArrays"]
LiveVBOs == calls["glGenBuffers"] - calls["glDeleteBuffers"]
LivePrograms == calls["glCreateProgram"] - calls["glDeleteProgram"]

TypeOK ==
    /\ returned \in {<<>>, <<0>>, <<-1>>}
    /\ calls \in [CallNames -> Nat]
    /\ iter \in 0..(MaxFrames + 1)
    /\ escKey \in {"RELEASE", "PRESS"}
    /\ status \in [BuildSteps -> {"none", "ok", "failed"}]

\* Calls made once per loop iteration, in source order (glBindVertexArray is
\* also called once during the upload, line 69).
FrameBinds == calls["glBindVertexArray"] - calls["glBufferData"]

FrameCounts ==
    <<calls["glfwGetKey"], calls["glClear"], calls["glUseProgram"], FrameBinds,
      calls["glDrawArrays"], calls["glfwSwapBuffers"], calls["glfwPollEvents"]>>

AnyGlCall == \E c \in GlCalls : calls[c] > 0

BuildTag(s) ==
    CASE s = "vertex" -> "ERROR::VERTEX_SHADER_COMPILATION_FAILED"
      [] s = "fragment" -> "ERROR::FRAGMENT_SHADER_COMPILATION_FAILED"
      [] s = "program" -> "ERROR::SHADER_PROGRAM_LINKING_FAILED"

FailedSteps == {s \in BuildSteps : status[s] = "failed"}

\* ==================================================================== claims

\* C1: on the normal exit path (the loop ended on the close flag and main
\* returned 0) exactly one delete call has been made for each of the VAO, the
\* VBO and the shader program; no more than one is ever made.
C1_OneDeleteEachOnNormalExit ==
    /\ calls["glDeleteVertexArrays"] <= 1
    /\ calls["glDeleteBuffers"] <= 1
    /\ calls["glDeleteProgram"] <= 1
    /\ (returned = <<0>> /\ closeSeen) =>
         /\ calls["glDeleteVertexArrays"] = 1
         /\ calls["glDeleteBuffers"] = 1
         /\ calls["glDeleteProgram"] = 1

C1_Witness ==
    /\ returned = <<0>>
    /\ iter = 2
    /\ calls["glDeleteVertexArrays"] = 1
    /\ calls["glDeleteBuffers"] = 1
    /\ calls["glDeleteProgram"] = 1

\* C2: once an iteration has seen Escape pressed, the close flag is set, that
\* iteration still runs clear, use program, bind, draw, swap and poll, the
\* flag is not tested and no shutdown call is made before its poll has run,
\* and no further iteration is started or frame drawn.
C2_EscapeCompletesIteration ==
    escIter # 0 =>
      /\ shouldClose
      /\ iter = escIter
      /\ calls["glDrawArrays"] <= escIter
      /\ calls["glfwPollEvents"] < escIter =>
           /\ calls["glfwWindowShouldClose"] = escIter
           /\ calls["glDeleteVertexArrays"] = 0
           /\ ~closeSeen
           /\ ~Exited
      /\ closeSeen =>
           /\ FrameCounts = [i \in 1..7 |-> escIter]
           /\ calls["glfwWindowShouldClose"] = escIter + 1

C2_Witness ==
    /\ escIter = 2
    /\ closeSeen
    /\ calls["glDrawArrays"] = 2
    /\ calls["glfwPollEvents"] = 2

\* C3 as stated: the objects are created before the first frame, never more
\* than one of each exists, and each is destroyed exactly once, after the loop
\* exits, on every exit path of the program.
C3_DestroyedOnEveryExitPath ==
    /\ iter > 0 =>
         /\ calls["glGenVertexArrays"] = 1
         /\ calls["glGenBuffers"] = 1
         /\ calls["glCreateProgram"] = 1
    /\ LiveVAOs <= 1 /\ LiveVBOs <= 1 /\ LivePrograms <= 1
    /\ Exited =>
         /\ calls["glDeleteVertexArrays"] = 1
         /\ calls["glDeleteBuffers"] = 1
         /\ calls["glDeleteProgram"] = 1

\* C3 amended: each object is created exactly once before the first frame, at
\* most one of each exists at any time and exactly one throughout the frame
\* loop, and each is destroyed exactly once, after the loop exits, on the
\* normal exit path; on the early failure exits none is created or destroyed.
C3_CreatedOnceDestroyedOnNormalExit ==
    /\ iter > 0 =>
         /\ calls["glGenVertexArrays"] = 1
         /\ calls["glGenBuffers"] = 1
         /\ calls["glCreateProgram"] = 1
    /\ LiveVAOs \in {0, 1} /\ LiveVBOs \in {0, 1} /\ LivePrograms \in {0, 1}
    /\ (iter > 0 /\ ~closeSeen) =>
         LiveVAOs = 1 /\ LiveVBOs = 1 /\ LivePrograms = 1
    /\ (calls["glDeleteVertexArrays"] > 0
          \/ calls["glDeleteBuffers"] > 0
          \/ calls["glDeleteProgram"] > 0) => closeSeen
    /\ returned = <<0>> =>
         /\ calls["glDeleteVertexArrays"] = 1
         /\ calls["glDeleteBuffers"] = 1
         /\ calls["glDeleteProgram"] = 1
    /\ returned = <<-1>> =>
         /\ calls["glGenVertexArrays"] = 0 /\ calls["glDeleteVertexArrays"] = 0
         /\ calls["glGenBuffers"] = 0 /\ calls["glDeleteBuffers"] = 0
         /\ calls["glCreateProgram"] = 0 /\ calls["glDeleteProgram"] = 0

C3_Witness ==
    /\ returned = <<0>>
    /\ iter = 3
    /\ calls["glGenVertexArrays"] = 1 /\ LiveVAOs = 0
    /\ calls["glGenBuffers"] = 1 /\ LiveVBOs = 0
    /\ calls["glCreateProgram"] = 1 /\ LivePrograms = 0

\* C4: main returns 0 exactly when it ends by the loop condition observing
\* the close flag, and -1 exactly when glfwInit, glfwCreateWindow or
\* gladLoadGLLoader failed; such a failure ends main at once, with no gl*
\* call made, no object created and the frame loop never reached.
C4_ExitCodes ==
    /\ Exited => /\ (returned = <<0>>) <=> closeSeen
                 /\ (returned = <<-1>>) <=> (failure # "none")
    /\ failure # "none" =>
         /\ returned = <<-1>>
         /\ ~AnyGlCall
         /\ calls["glfwWindowShouldClose"] = 0
         /\ iter = 0
         /\ failure = "glfwInit" => calls["glfwCreateWindow"] = 0
         /\ failure = "glfwCreateWindow" => calls["gladLoadGLLoader"] = 0

C4_Witness ==
    /\ returned = <<-1>>
    /\ failure = "gladLoadGLLoader"
    /\ ~AnyGlCall

\* C5: a failed vertex compile, fragment compile or link writes its message
\* to stderr and ends nothing: the remaining compile, attach, link and stage
\* deletions are still made, main never returns -1 after a build failure,
\* and the frame loop is reached and draws with the program.
C5_BuildInvariant ==
    /\ \A s \in BuildSteps :
         status[s] = "failed" <=> (\E i \in 1..Len(stderr) : stderr[i] = BuildTag(s))
    /\ FailedSteps # {} => /\ Len(stderr) = Cardinality(FailedSteps)
                           /\ returned # <<-1>>
    /\ calls["glfwWindowShouldClose"] > 0 =>
         /\ calls["glCreateShader"] = 2
         /\ calls["glCompileShader"] = 2
         /\ calls["glCreateProgram"] = 1
         /\ calls["glAttachShader"] = 2
         /\ calls["glLinkProgram"] = 1
         /\ calls["glDeleteShader"] = 2
    /\ calls["glDrawArrays"] <= calls["glUseProgram"]

C5_BuildFailureNonFatal ==
    /\ []C5_BuildInvariant
    /\ \A s \in BuildSteps :
         (status[s] = "failed") ~> (calls["glDrawArrays"] > 0)

C5_Witness ==
    /\ status["vertex"] = "failed"
    /\ status["fragment"] = "ok"
    /\ status["program"] = "failed"
    /\ Len(stderr) = 2
    /\ calls["glDrawArrays"] = 1

\* C6: every resize delivered results in exactly one glViewport call, with
\* arguments (0, 0, new width, new height); the call is made during
\* glfwPollEvents, after the frame's swap and before the next clear.
C6_ViewportMatchesResizes ==
    viewportLog =
      [i \in 1..Len(resizeLog) |-> <<0, 0, resizeLog[i][1], resizeLog[i][2]>>]

C6_OneViewportPerResize ==
    /\ []C6_ViewportMatchesResizes
    /\ [][viewportLog' # viewportLog =>
            /\ calls["glfwPollEvents"]' = calls["glfwPollEvents"] + 1
            /\ calls["glClear"]' = calls["glClear"]
            /\ calls["glfwSwapBuffers"]' = calls["glfwSwapBuffers"]
            /\ calls["glClear"] = calls["glfwSwapBuffers"]
            /\ calls["glViewport"]' = Len(resizeLog')]_vars

C6_Witness ==
    /\ Len(resizeLog) = 2
    /\ resizeLog[1] = <<800, 768>>
    /\ viewportLog[2] = <<0, 0, 1024, 600>>
    /\ calls["glClear"] = 2

\* C7: gladLoadGLLoader is called after the window exists and its context is
\* current, and no gl* call (the resize callback's glViewport included) is
\* made while the loader has not succeeded.
C7_LoaderBeforeGl ==
    /\ ~glBeforeLoad
    /\ AnyGlCall => loaded
    /\ viewportLog # <<>> => loaded
    /\ calls["gladLoadGLLoader"] <= 1
    /\ calls["gladLoadGLLoader"] = 1 =>
         /\ calls["glfwCreateWindow"] = 1
         /\ calls["glfwMakeContextCurrent"] = 1
         /\ failure = "none" \/ failure = "gladLoadGLLoader"

C7_Witness ==
    /\ loaded
    /\ callbackSet
    /\ Len(viewportLog) = 1
    /\ calls["glDeleteProgram"] = 1

\* C8: an iteration starts only while the close flag is unset and the
\* previous iteration is complete; each iteration makes, once each and in
\* this order, the key poll, clear, use program, bind VAO, draw of 3 vertices
\* from index 0 as triangles, swap and event poll; no frame is drawn once the
\* loop condition finds the flag set.
C8_IterationOrder ==
    /\ iter >= FrameCounts[1]
    /\ \A i \in 1..6 : FrameCounts[i] >= FrameCounts[i + 1]
    /\ FrameCounts[7] >= iter - 1
    /\ calls["glfwWindowShouldClose"] \in {FrameCounts[7], FrameCounts[7] + 1}
    /\ calls["glDrawArrays"] > 0 => drawArgs = <<"GL_TRIANGLES", 0, 3>>
    /\ closeSeen => FrameCounts = [i \in 1..7 |-> iter]

C8_FrameLoop ==
    /\ []C8_IterationOrder
    /\ [][iter' # iter =>
            /\ iter' = iter + 1
            /\ ~shouldClose
            /\ FrameCounts = [i \in 1..7 |-> iter]]_vars
    /\ [][(shouldClose /\ calls["glfwWindowShouldClose"]' # calls["glfwWindowShouldClose"])
            => (closeSeen' /\ FrameCounts' = FrameCounts)]_vars

C8_Witness ==
    /\ iter = 3
    /\ ~shouldClose
    /\ FrameCounts = <<3, 3, 3, 3, 3, 3, 3>>
    /\ drawArgs = <<"GL_TRIANGLES", 0, 3>>

\* C9: shutdown starts only after the loop condition has found the close
\* flag set and runs glDeleteVertexArrays, glDeleteBuffers, glDeleteProgram,
\* glfwTerminate, return 0 in that order; no clear, draw, swap or event poll
\* follows the first delete, and no early failure exit makes any of the
\* deletes.
C9_ShutdownOrder ==
    /\ calls["glDeleteVertexArrays"] > 0 => closeSeen
    /\ calls["glDeleteVertexArrays"] >= calls["glDeleteBuffers"]
    /\ calls["glDeleteBuffers"] >= calls["glDeleteProgram"]
    /\ closeSeen => calls["glDeleteProgram"] >= calls["glfwTerminate"]
    /\ returned = <<0>> =>
         /\ calls["glDeleteProgram"] = 1
         /\ calls["glfwTerminate"] = 1
         /\ glfwState = "terminated"
    /\ (closeSeen /\ calls["glfwTerminate"] = 1) => returned = <<0>>
    /\ failure # "none" =>
         /\ ~closeSeen
         /\ calls["glDeleteVertexArrays"] = 0
         /\ calls["glDeleteBuffers"] = 0
         /\ calls["glDeleteProgram"] = 0

C9_Shutdown ==
    /\ []C9_ShutdownOrder
    /\ [][calls["glDeleteVertexArrays"]' > 0 =>
            /\ calls["glClear"]' = calls["glClear"]
            /\ calls["glDrawArrays"]' = calls["glDrawArrays"]
            /\ calls["glfwSwapBuffers"]' = calls["glfwSwapBuffers"]
            /\ calls["glfwPollEvents"]' = calls["glfwPollEvents"]]_vars

C9_Witness ==
    /\ returned = <<0>>
    /\ iter = 1
    /\ calls["glfwTerminate"] = 1
    /\ calls["glDeleteVertexArrays"] = 1

\* C10: on every exit path on which glfwInit succeeded, glfwTerminate has
\* been called exactly once when main returns and no window or context is
\* left.
C10_TerminatedOnEveryExit ==
    (Exited /\ failure # "glfwInit") =>
      /\ calls["glfwTerminate"] = 1
      /\ glfwState = "terminated"
      /\ ~window

====
